---- MODULE Spec2Model ----
(***************************************************************************)
(* A model of betterproto's standard-library layer:                        *)
(*   - StandardEnum.try_value            (betterproto/standard_enum.py)    *)
(*   - StandardMessage.to_dict/from_dict (betterproto/standard_message.py) *)
(*   - generate_code and main            (plugin/standard_plugin.py)       *)
(* Each part has its own specification (SpecEnum, SpecMessage, SpecPlugin, *)
(* SpecGen) over the same variables; the variables of the other parts stay *)
(* at their initial values.                                                *)
(***************************************************************************)
EXTENDS Integers, Sequences, FiniteSets, TLC

VARIABLES
    \* StandardEnum
    enumCls,      \* the enum class: its members in declaration order
    enumArg,      \* the argument of the last try_value(v) call
    enumRet,      \* what the last try_value(v) call returned
    enumRaised,   \* the exception the last try_value(v) call raised, "" for none
    defRet,       \* what the last try_value() call (no argument) returned
    defRaised,    \* the exception the last try_value() call raised
    warnLog,      \* the warnings issued so far, oldest first
    enumCalls,    \* <<number of try_value(v) calls, number of try_value() calls>>
    \* StandardMessage
    schema,       \* the outer message class: field name -> declared type
    msgData,      \* the dict last passed to from_dict
    msgRet,       \* the result of the last from_dict call
    rtIn,         \* the message last sent through to_dict / from_dict
    rtOut,        \* the result of from_dict(rtIn.to_dict())
    \* plugin main()
    pc,           \* where main() is: "idle", "loop", "done", "failed"
    request,      \* the request's file list
    idx,          \* how many entries of the file list the loop has consumed
    response,     \* response["file"]
    stdout,       \* the responses written to standard output
    compileLog,   \* one record per compile_parsed call of this run
    \* generate_code
    genHist       \* the generate_code calls made so far, oldest first

enumVars == <<enumCls, enumArg, enumRet, enumRaised, defRet, defRaised, warnLog, enumCalls>>
msgVars == <<schema, msgData, msgRet, rtIn, rtOut>>
mainVars == <<pc, request, idx, response, stdout, compileLog>>
vars == <<enumVars, msgVars, mainVars, genHist>>

----------------------------------------------------------------------------
(* Bounds of the model *)

MaxMembers == 3      \* an enum class declares 1..MaxMembers members
MaxEnumValue == 2    \* member values are 0..MaxEnumValue
MaxEnumCalls == 2    \* calls of each form of try_value in one behaviour
MaxFiles == 3        \* entries in a request's file list
MaxGenCalls == 2     \* generate_code calls in one behaviour

----------------------------------------------------------------------------
(* StandardEnum *)

MemberNames == <<"A", "B", "C", "D", "E">>

\* The value try_value looks up when called without an argument.
DefaultValue == 0

NoMember == [name |-> "", value |-> -1]

\* The enum classes of the model: 1..MaxMembers members, named in declaration
\* order, with any values (two names with one value make the later an alias).
\* A Protocol Buffers enum declares at least one value.
EnumClasses ==
    UNION { { [i \in 1..n |-> [name |-> MemberNames[i], value |-> f[i]]]
              : f \in [1..n -> 0..MaxEnumValue] }
            : n \in 1..MaxMembers }

\* The integers try_value is called with: every member value and some others.
ProbeValues == (-1)..(MaxEnumValue + 1)

HasValue(E, v) == \E i \in 1..Len(E) : E[i].value = v

\* cls(value): the member with that value (the first declared one when several
\* names share it), or ValueError.
EnumCall(E, v) ==
    IF HasValue(E, v)
    THEN [raised |-> "",
          ret |-> E[CHOOSE i \in 1..Len(E) :
                      /\ E[i].value = v
                      /\ \A j \in 1..Len(E) : E[j].value = v => i <= j]]
    ELSE [raised |-> "ValueError", ret |-> NoMember]

\* A plausible slip: the member with the smallest value instead of the first.
SmallestMember(E) ==
    IF Len(E) = 0
    THEN [raised |-> "StopIteration", ret |-> NoMember]
    ELSE [raised |-> "",
          ret |-> E[CHOOSE i \in 1..Len(E) :
                      /\ \A j \in 1..Len(E) : E[i].value <= E[j].value
                      /\ \A j \in 1..Len(E) : E[j].value = E[i].value => i <= j]]

\* next(iter(cls.__members__.values())): the first declared member.
FirstMember(E) ==
    IF Len(E) = 0
    THEN [raised |-> "StopIteration", ret |-> NoMember]
    ELSE [raised |-> "", ret |-> E[1]]

\* A plausible slip: the fallback path issues no warning.
NoWarning(log, v) == log

\* warnings.warn(f"Unknown value {value} for enum ..."): one warning is issued.
\* warnLog holds the warnings handed to the warnings module; what the
\* interpreter's warning filter then does with them is not part of the model.
Warn(log, v) == Append(log, [unknown |-> v])

\* try_value(cls, value): the member, or a warning and the first member.
TryValueResult(E, v, log) ==
    LET hit == EnumCall(E, v) IN
    IF hit.raised = ""
    THEN [raised |-> "", ret |-> hit.ret, log |-> log]
    ELSE LET first == FirstMember(E) IN
         [raised |-> first.raised, ret |-> first.ret, log |-> Warn(log, v)]

\* E.try_value(v)
TryValue ==
    /\ enumCalls[1] < MaxEnumCalls
    /\ \E v \in ProbeValues :
         LET r == TryValueResult(enumCls, v, warnLog) IN
         /\ enumArg' = v
         /\ enumRet' = r.ret
         /\ enumRaised' = r.raised
         /\ warnLog' = r.log
    /\ enumCalls' = <<enumCalls[1] + 1, enumCalls[2]>>
    /\ UNCHANGED <<enumCls, defRet, defRaised>>

\* E.try_value(): value takes its default
TryValueDefault ==
    /\ enumCalls[2] < MaxEnumCalls
    /\ LET r == TryValueResult(enumCls, DefaultValue, warnLog) IN
         /\ defRet' = r.ret
         /\ defRaised' = r.raised
         /\ warnLog' = r.log
    /\ enumCalls' = <<enumCalls[1], enumCalls[2] + 1>>
    /\ UNCHANGED <<enumCls, enumArg, enumRet, enumRaised>>

EnumIdle ==
    /\ enumArg = 0
    /\ enumRet = NoMember
    /\ enumRaised = ""
    /\ defRet = NoMember
    /\ defRaised = ""
    /\ warnLog = <<>>
    /\ enumCalls = <<0, 0>>

----------------------------------------------------------------------------
(* StandardMessage *)

\* Python values: None, an int, a dict, or a message instance of class cls.
\* items is the set of <<key, value>> pairs of a dict, or of <<field, value>>
\* pairs of a message.
NoneV == [tag |-> "none", cls |-> "", v |-> 0, items |-> {}]
IntV(n) == [tag |-> "int", cls |-> "", v |-> n, items |-> {}]
DictV(items) == [tag |-> "dict", cls |-> "", v |-> 0, items |-> items]
MsgV(cls, items) == [tag |-> "msg", cls |-> cls, v |-> 0, items |-> items]

Keys(items) == { kv[1] : kv \in items }
Get(items, k) == (CHOOSE kv \in items : kv[1] = k)[2]

\* What get_type_hints can return for a field of a generated message.
TypeHints ==
    {"int", "Inner", "Optional[Inner]", "dict", "Dict[str, int]",
     "Optional[Dict[str, int]]", "List[Inner]"}

\* hasattr(field_type, "__origin__"): subscripted generics have it, classes
\* (int, dict, a message class) do not.
HasOrigin(t) ==
    t \in {"Optional[Inner]", "Dict[str, int]", "Optional[Dict[str, int]]", "List[Inner]"}

\* field_type.__origin__
Origin(t) ==
    CASE t \in {"Optional[Inner]", "Optional[Dict[str, int]]"} -> "Union"
      [] t = "Dict[str, int]" -> "dict"
      [] t = "List[Inner]" -> "list"
      [] OTHER -> ""

\* The condition under which from_dict treats a value as a nested message.
IsNested(t, value) == value.tag = "dict" /\ HasOrigin(t) /\ Origin(t) # "dict"

\* The fields of the nested message class Inner.
InnerTypes == [x \in {"x"} |-> "int"]

\* cls(**processed): every field not given takes its default, None.
Construct(cls, fieldTypes, processed) ==
    MsgV(cls, { <<f, IF f \in Keys(processed) THEN Get(processed, f) ELSE NoneV>>
                : f \in DOMAIN fieldTypes })

\* cls.from_dict(data). A value taken for a nested message is handed to
\* field_type.from_dict; field_type is then a subscripted generic, which looks
\* the attribute up on its origin (Union, list), and that has no from_dict.
FromDict(cls, fieldTypes, data) ==
    LET declared == { kv \in data : kv[1] \in DOMAIN fieldTypes }
        nested == { kv \in declared : IsNested(fieldTypes[kv[1]], kv[2]) }
    IN  IF nested # {}
        THEN [raised |-> "AttributeError", ret |-> NoneV]
        ELSE [raised |-> "", ret |-> Construct(cls, fieldTypes, declared)]

\* to_dict's _convert: a message becomes the dict of its converted fields, a
\* dict the dict of its converted values, anything else stays.
RECURSIVE Convert(_)
Convert(obj) ==
    IF obj.tag \in {"msg", "dict"}
    THEN DictV({ <<kv[1], Convert(kv[2])>> : kv \in obj.items })
    ELSE obj

ToDict(msg) == Convert(msg)

FieldNames == {"f1", "f2"}
DataKeys == FieldNames \cup {"zz"}
InnerMsg == MsgV("Inner", {<<"x", IntV(1)>>})
DataValues == {IntV(1), DictV({<<"x", IntV(1)>>})}

\* The dicts passed to from_dict: any keys, declared or not, with any values.
DataDicts ==
    { { <<k, f[k]>> : k \in { k \in DataKeys : f[k] # NoneV } }
      : f \in [DataKeys -> DataValues \cup {NoneV}] }

\* The values a field of the given declared type holds in a message.
ValuesOf(t) ==
    CASE t = "int" -> {NoneV, IntV(1)}
      [] t \in {"Inner", "Optional[Inner]"} -> {NoneV, InnerMsg}
      [] t \in {"dict", "Dict[str, int]", "Optional[Dict[str, int]]"} ->
            {NoneV, DictV({<<"a", IntV(1)>>})}
      [] OTHER -> {NoneV}

Messages(fieldTypes) ==
    { MsgV("Outer", { <<k, f[k]>> : k \in DOMAIN fieldTypes })
      : f \in { g \in [DOMAIN fieldTypes -> UNION { ValuesOf(t) : t \in TypeHints }]
                : \A k \in DOMAIN fieldTypes : g[k] \in ValuesOf(fieldTypes[k]) } }

NoResult == [raised |-> "not called", ret |-> NoneV]

\* Outer.from_dict(data)
FromDictCall ==
    /\ \E data \in DataDicts :
         /\ msgData' = data
         /\ msgRet' = FromDict("Outer", schema, data)
    /\ UNCHANGED <<schema, rtIn, rtOut>>

\* Outer.from_dict(m.to_dict())
RoundTrip ==
    /\ \E m \in Messages(schema) :
         /\ rtIn' = m
         /\ rtOut' = FromDict("Outer", schema, ToDict(m).items)
    /\ UNCHANGED <<schema, msgData, msgRet>>

MsgIdle ==
    /\ msgData = {}
    /\ msgRet = NoResult
    /\ rtIn = NoneV
    /\ rtOut = NoResult

----------------------------------------------------------------------------
(* The plugin: names *)

\* Strings that the code takes apart are sequences of characters.
DotProto == <<".", "p", "r", "o", "t", "o">>
PbPy == <<"_", "p", "b", ".", "p", "y">>

\* str.replace(old, new): every non-overlapping occurrence, left to right.
RECURSIVE StrReplace(_, _, _)
StrReplace(s, old, new) ==
    IF Len(s) < Len(old) \/ Len(old) = 0
    THEN s
    ELSE IF SubSeq(s, 1, Len(old)) = old
         THEN new \o StrReplace(SubSeq(s, Len(old) + 1, Len(s)), old, new)
         ELSE <<Head(s)>> \o StrReplace(Tail(s), old, new)

\* output_file = proto_name.replace(".proto", "_pb.py")
OutputName(name) == StrReplace(name, DotProto, PbPy)

EndsWith(s, suffix) ==
    /\ Len(s) >= Len(suffix)
    /\ SubSeq(s, Len(s) - Len(suffix) + 1, Len(s)) = suffix

Stem(s, suffix) == SubSeq(s, 1, Len(s) - Len(suffix))

\* The names a request gives its files.
RequestNames ==
    { <<>>,
      <<"a">> \o DotProto,
      <<"a">> \o PbPy,
      <<"a">> \o DotProto \o DotProto }

----------------------------------------------------------------------------
(* The plugin: parser, compiler and renderer (betterproto.plugin.parser,
   betterproto.plugin.compiler and the templates) *)

\* Schema texts: an empty file, a file declaring Point, a file that imports it
\* and declares Path with fields of type Point, and a text that is no schema.
SrcEmpty == ""
SrcA == "package pa; message Point { int32 x = 1; int32 y = 2; }"
SrcB == "package pb; import a; message Path { repeated Point pts = 1; }"
SrcBad == "message {"
Contents == {SrcEmpty, SrcA, SrcB, SrcBad}

NoFile == [package |-> "", decls |-> {}, refs |-> {}]

\* Parser.parse_proto(content): the descriptor of the file, or a failure.
ParseProto(content) ==
    CASE content = SrcEmpty -> [raised |-> "", file |-> NoFile]
      [] content = SrcA ->
            [raised |-> "", file |-> [package |-> "pa", decls |-> {"Point"}, refs |-> {}]]
      [] content = SrcB ->
            [raised |-> "", file |-> [package |-> "pb", decls |-> {"Path"}, refs |-> {"Point"}]]
      [] OTHER -> [raised |-> "ParseError", file |-> NoFile]

\* The declarations a compiler can resolve against when handed these files.
Namespace(files) == UNION { f.decls : f \in files }

\* Compiler.compile_parsed(parsed, include_imports) of a compiler that was
\* handed the descriptors `known`: every type a field refers to is resolved in
\* their namespace, or the compilation fails.
CompileParsed(known, parsed, include_imports) ==
    IF parsed.refs \subseteq Namespace(known)
    THEN [raised |-> "",
          compiled |-> [package |-> parsed.package,
                        decls |-> parsed.decls,
                        refs |-> parsed.refs,
                        inlined |-> IF include_imports
                                    THEN Namespace(known) \ parsed.decls
                                    ELSE {}]]
    ELSE [raised |-> "UnresolvedTypeError",
          compiled |-> [package |-> "", decls |-> {}, refs |-> {}, inlined |-> {}]]

\* header_template.render(...) + "\n\n" + code_template.render(...)
Render(compiled) == <<[stage |-> "header", of |-> compiled], [stage |-> "body", of |-> compiled]>>

----------------------------------------------------------------------------
(* The plugin: main() *)

\* An entry of request["file"]; an entry may lack its "name" key.
Entries ==
    { [hasName |-> TRUE, name |-> n, content |-> c] : n \in RequestNames, c \in Contents }
    \cup { [hasName |-> FALSE, name |-> <<>>, content |-> c] : c \in Contents }

Requests == UNION { [1..n -> Entries] : n \in 0..MaxFiles }

\* proto_file.get("name", "")
GetName(entry) == IF entry.hasName THEN entry.name ELSE <<>>

\* The descriptors main() hands the compiler for one file: a new Parser and a
\* new Compiler per file, and only that file's parse result.
KnownTo(parsed) == {parsed}

\* Parse and compile one entry as main() does.
Process(entry) ==
    LET p == ParseProto(entry.content) IN
    IF p.raised # ""
    THEN [raised |-> p.raised, known |-> {}, output |-> <<>>]
    ELSE LET c == CompileParsed(KnownTo(p.file), p.file, FALSE) IN
         [raised |-> c.raised,
          known |-> KnownTo(p.file),
          output |-> IF c.raised = "" THEN Render(c.compiled) ELSE <<>>]

\* A plausible slip: the new output goes to the front of the list.
EmitFront(resp, out) == <<out>> \o resp

\* response["file"].append(...)
Emit(resp, out) == Append(resp, out)

\* data = sys.stdin.buffer.read(); request = json.loads(data)
MainRead ==
    /\ pc = "idle"
    /\ \E req \in Requests : request' = req
    /\ pc' = "loop"
    /\ idx' = 0
    /\ response' = <<>>
    /\ UNCHANGED <<stdout, compileLog>>

\* A plausible slip: a file that fails is passed over and the loop goes on.
MainIterBestEffort ==
    /\ pc = "loop"
    /\ idx < Len(request)
    /\ LET entry == request[idx + 1]
           r == Process(entry)
       IN  /\ idx' = idx + 1
           /\ pc' = "loop"
           /\ compileLog' = IF GetName(entry) # <<>> /\ r.known # {}
                            THEN Append(compileLog, [entry |-> idx + 1, known |-> r.known])
                            ELSE compileLog
           /\ response' = IF GetName(entry) # <<>> /\ r.raised = ""
                          THEN Emit(response, [name |-> OutputName(GetName(entry)),
                                               content |-> r.output])
                          ELSE response
    /\ UNCHANGED <<request, stdout>>

\* One iteration of the loop over request["file"]: an entry without a name is
\* passed over; any other is parsed, compiled and rendered, and an exception
\* of any of the three leaves main().
MainIter ==
    /\ pc = "loop"
    /\ idx < Len(request)
    /\ LET entry == request[idx + 1]
           r == Process(entry)
       IN  IF GetName(entry) = <<>>
           THEN /\ idx' = idx + 1
                /\ UNCHANGED <<pc, response, compileLog>>
           ELSE /\ compileLog' = IF r.known # {}
                                 THEN Append(compileLog, [entry |-> idx + 1, known |-> r.known])
                                 ELSE compileLog
                /\ \E renders \in BOOLEAN :
                     IF r.raised = "" /\ renders
                     THEN /\ response' = Emit(response, [name |-> OutputName(GetName(entry)),
                                                         content |-> r.output])
                          /\ idx' = idx + 1
                          /\ pc' = "loop"
                     ELSE /\ pc' = "failed"
                          /\ UNCHANGED <<response, idx>>
    /\ UNCHANGED <<request, stdout>>

\* sys.stdout.buffer.write(json.dumps(response).encode())
MainWrite ==
    /\ pc = "loop"
    /\ idx = Len(request)
    /\ stdout' = Append(stdout, response)
    /\ pc' = "done"
    /\ UNCHANGED <<request, idx, response, compileLog>>

MainIdle ==
    /\ pc = "idle"
    /\ request = <<>>
    /\ idx = 0
    /\ response = <<>>
    /\ stdout = <<>>
    /\ compileLog = <<>>

----------------------------------------------------------------------------
(* The plugin: generate_code *)

\* package_override: None or a package name.
PackageOverrides == {"None", "x", "y"}

\* generate_code(proto_file, output_file, include_imports, package_override,
\* python_module_override): the file is read, parsed, compiled and rendered,
\* and the text written to output_file. The record keeps the arguments, what
\* compile_parsed was called with and what was written.
GenerateCode ==
    /\ Len(genHist) < MaxGenCalls
    /\ \E content \in Contents, include_imports \in BOOLEAN,
          package_override \in PackageOverrides, renders \in BOOLEAN :
         LET p == ParseProto(content)
             c == CompileParsed(KnownTo(p.file), p.file, include_imports)
             raised == IF p.raised # "" THEN p.raised
                       ELSE IF c.raised # "" THEN c.raised
                       ELSE IF ~renders THEN "TemplateError"
                       ELSE ""
         IN  genHist' = Append(genHist,
                 [content |-> content,
                  include_imports |-> include_imports,
                  package_override |-> package_override,
                  compile_include |-> include_imports,
                  raised |-> raised,
                  compiled |-> c.compiled,
                  written |-> IF raised = "" THEN Render(c.compiled) ELSE <<>>])

----------------------------------------------------------------------------
(* Specifications *)

InitEnum ==
    /\ enumCls \in EnumClasses
    /\ EnumIdle
    /\ schema = [k \in FieldNames |-> "int"]
    /\ MsgIdle
    /\ MainIdle
    /\ genHist = <<>>

NextEnum ==
    \/ TryValue /\ UNCHANGED <<msgVars, mainVars, genHist>>
    \/ TryValueDefault /\ UNCHANGED <<msgVars, mainVars, genHist>>

SpecEnum == InitEnum /\ [][NextEnum]_vars

InitMessage ==
    /\ enumCls = <<>>
    /\ EnumIdle
    /\ schema \in [FieldNames -> TypeHints]
    /\ MsgIdle
    /\ MainIdle
    /\ genHist = <<>>

NextMessage ==
    \/ FromDictCall /\ UNCHANGED <<enumVars, mainVars, genHist>>
    \/ RoundTrip /\ UNCHANGED <<enumVars, mainVars, genHist>>

SpecMessage == InitMessage /\ [][NextMessage]_vars

InitPlugin ==
    /\ enumCls = <<>>
    /\ EnumIdle
    /\ schema = [k \in FieldNames |-> "int"]
    /\ MsgIdle
    /\ MainIdle
    /\ genHist = <<>>

NextPlugin ==
    \/ MainRead /\ UNCHANGED <<enumVars, msgVars, genHist>>
    \/ MainIter /\ UNCHANGED <<enumVars, msgVars, genHist>>
    \/ MainWrite /\ UNCHANGED <<enumVars, msgVars, genHist>>

SpecPlugin == InitPlugin /\ [][NextPlugin]_vars

NextGen == GenerateCode /\ UNCHANGED <<enumVars, msgVars, mainVars>>

SpecGen == InitPlugin /\ [][NextGen]_vars

----------------------------------------------------------------------------
(* Properties of StandardEnum, under SpecEnum *)

C2_DefaultIsFirstDeclared ==
    /\ enumCalls[2] > 0 => (defRaised = "" /\ defRet = enumCls[1])
    /\ (enumCalls[1] > 0 /\ enumCalls[2] > 0 /\ ~HasValue(enumCls, enumArg))
          => enumRet = defRet

----------------------------------------------------------------------------
(* Properties of main(), under SpecPlugin *)

Named(entry) == GetName(entry) # <<>>

\* The output main() appends for an entry.
OutputFor(entry) ==
    [name |-> OutputName(GetName(entry)), content |-> Process(entry).output]

\* The entries with a name among the first n of the request, in order.
NamedUpTo(n) == SelectSeq(SubSeq(request, 1, n), Named)

\* C4 as stated: the response holds one output per entry of the request, the
\* i-th generated from the i-th entry, whatever the entries' names.
C4_OneOutputPerEntry ==
    pc = "done" =>
        /\ Len(response) = Len(request)
        /\ \A i \in 1..Len(request) : response[i] = OutputFor(request[i])

\* C4, amended: the response holds one output per entry that has a non-empty
\* name, in the order of those entries; entries without a name yield nothing.
C4_OneOutputPerNamedEntry ==
    /\ pc \in {"loop", "done", "failed"} =>
          /\ Len(response) = Len(NamedUpTo(idx))
          /\ \A i \in 1..Len(response) : response[i] = OutputFor(NamedUpTo(idx)[i])
    /\ pc = "done" => (idx = Len(request) /\ stdout = <<response>>)

\* C4 happens: a finished request of three entries, one of them without a
\* name, answered by two different outputs.
C4_Witness ==
    /\ pc = "done"
    /\ Len(request) = 3
    /\ \E i \in 1..3 : ~Named(request[i])
    /\ Len(response) = 2
    /\ response[1] # response[2]
    /\ stdout = <<response>>

\* C5: a failure for any file leaves main() with nothing written to standard
\* output; a response is written only after every entry has been processed
\* without failure, and only once.
C5_AllOrNothing ==
    /\ pc = "failed" => (stdout = <<>> /\ idx < Len(request))
    /\ stdout # <<>> => (pc = "done" /\ idx = Len(request) /\ stdout = <<response>>)
    /\ \A i \in 1..idx : Named(request[i]) => Process(request[i]).raised = ""

\* C5 happens: the k-th file failed after earlier files had produced output.
C5_Witness ==
    /\ pc = "failed"
    /\ idx >= 1
    /\ Len(response) >= 1
    /\ stdout = <<>>

\* C6: every compilation is given the declarations of every file of the
\* request, so that no file is compiled with only its own content visible.
C6_CompilesAgainstWholeRequest ==
    \A k \in 1..Len(compileLog) :
        \A i \in 1..Len(request) :
            Named(request[i]) =>
                ParseProto(request[i].content).file.decls
                    \subseteq Namespace(compileLog[k].known)

\* C7: the output name of a file named stem.proto is stem_pb.py, it differs
\* from the input name, and different input names give different output names.
C7_ExtensionReplaced ==
    LET named == NamedUpTo(idx) IN
    (pc \in {"loop", "done"} /\ Len(response) = Len(named)) =>
        \A i \in 1..Len(named) :
            /\ EndsWith(named[i].name, DotProto)
                  => response[i].name = Stem(named[i].name, DotProto) \o PbPy
            /\ response[i].name # named[i].name
            /\ \A j \in 1..Len(named) :
                  named[i].name # named[j].name => response[i].name # response[j].name

----------------------------------------------------------------------------
(* Properties of generate_code, under SpecGen *)

\* C8: include_imports reaches the compile step, a package_override replaces
\* the declared package, and calls that differ only in package_override do not
\* write the same output.
C8_OptionsTakeEffect ==
    \A i \in 1..Len(genHist) :
        genHist[i].raised = "" =>
            /\ genHist[i].compile_include = genHist[i].include_imports
            /\ genHist[i].package_override # "None"
                  => genHist[i].compiled.package = genHist[i].package_override
            /\ \A j \in 1..Len(genHist) :
                  ( /\ genHist[j].raised = ""
                    /\ genHist[j].content = genHist[i].content
                    /\ genHist[j].include_imports = genHist[i].include_imports
                    /\ genHist[j].package_override # genHist[i].package_override )
                  => genHist[j].written # genHist[i].written

----------------------------------------------------------------------------
(* Properties of StandardMessage, under SpecMessage *)

\* C9: a dict given for a field declared as a message class, bare or Optional,
\* is replaced by that class's from_dict of it, without raising; and
\* from_dict(m.to_dict()) = m for messages of scalars and nested messages.
C9_NestedDictsConverted ==
    /\ msgRet # NoResult =>
          \A kv \in msgData :
              ( /\ kv[1] \in DOMAIN schema
                /\ schema[kv[1]] \in {"Inner", "Optional[Inner]"}
                /\ kv[2].tag = "dict" )
              => /\ msgRet.raised = ""
                 /\ Get(msgRet.ret.items, kv[1])
                       = FromDict("Inner", InnerTypes, kv[2].items).ret
    /\ ( /\ rtOut # NoResult
         /\ \A kv \in rtIn.items : kv[2].tag \in {"none", "int", "msg"} )
          => (rtOut.raised = "" /\ rtOut.ret = rtIn)

\* C10: a dict given for a field declared as a mapping (dict, Dict[K, V],
\* Optional[Dict[K, V]]) is kept unchanged without raising, and every key
\* naming a declared field reaches the constructed message.
C10_MappingsKept ==
    msgRet # NoResult =>
        /\ \A kv \in msgData :
              ( /\ kv[1] \in DOMAIN schema
                /\ schema[kv[1]] \in {"dict", "Dict[str, int]", "Optional[Dict[str, int]]"}
                /\ kv[2].tag = "dict" )
              => /\ msgRet.raised = ""
                 /\ Get(msgRet.ret.items, kv[1]) = kv[2]
        /\ msgRet.raised = ""
        /\ \A kv \in msgData :
              kv[1] \in DOMAIN schema =>
                  Get(msgRet.ret.items, kv[1])
                      \in {kv[2], FromDict("Inner", InnerTypes, kv[2].items).ret}
        /\ Keys(msgRet.ret.items) = DOMAIN schema

====
